---- MODULE Spec2Model ----
(* clean_config.py: read backend/config/essenceTap.js as UTF-8 text, delete  *)
(* the two kinds of trailing version comment with re.sub, write the text     *)
(* back to the same path and print a two-line report.                        *)
(*                                                                           *)
(* The file is a sequence of bytes (0..255); the text held by the script is  *)
(* a sequence of code points.  One instance of the script is one member of   *)
(* Instances; Spec runs them one after the other, SpecRace concurrently.     *)
EXTENDS Integers, Sequences, FiniteSets, TLC

(***************************************************************************)
(* Bounds of the model                                                     *)
(***************************************************************************)
\* the initial file is a concatenation of at most MaxTokens members of Tokens
MaxTokens == 3
\* the same, for the concurrent specification
MaxRaceTokens == 2

(***************************************************************************)
(* Characters                                                              *)
(***************************************************************************)
LF == 10
CR == 13
SP == 32
Digits == 48..57

\* the fragments initial files are built from: "x ", " ", "\n", "\r",
\* "// v3.0:", "// was ", "\xc3\xa9" (e acute), "\xff" (not valid UTF-8)
Tokens ==
    { <<120, SP>>, <<SP>>, <<LF>>, <<CR>>,
      <<47, 47, 32, 118, 51, 46, 48, 58>>,
      <<47, 47, 32, 119, 97, 115, 32>>,
      <<195, 169>>, <<255>> }

\* the same, for the concurrent specification: "x", "\n", "// was ", e acute
RaceTokens ==
    { <<120>>, <<LF>>, <<47, 47, 32, 119, 97, 115, 32>>, <<195, 169>> }

RECURSIVE Texts(_, _)
Texts(T, n) ==
    IF n = 0 THEN { <<>> }
    ELSE LET S == Texts(T, n - 1) IN S \cup { s \o t : s \in S, t \in T }

(***************************************************************************)
(* encoding='utf-8' (strict): bytes -> code points and back                *)
(***************************************************************************)
IsCont(b) == b \in 128..191

\* number of bytes of the well-formed UTF-8 sequence starting at b[i], 0 if none
Utf8Len(b, i) ==
    LET n  == Len(b)
        b0 == b[i]
        b1 == IF i + 1 <= n THEN b[i + 1] ELSE 0
        b2 == IF i + 2 <= n THEN b[i + 2] ELSE 0
        b3 == IF i + 3 <= n THEN b[i + 3] ELSE 0
    IN  IF b0 < 128 THEN 1
        ELSE IF b0 \in 194..223 THEN (IF IsCont(b1) THEN 2 ELSE 0)
        ELSE IF b0 = 224 THEN (IF b1 \in 160..191 /\ IsCont(b2) THEN 3 ELSE 0)
        ELSE IF b0 = 237 THEN (IF b1 \in 128..159 /\ IsCont(b2) THEN 3 ELSE 0)
        ELSE IF b0 \in 225..239 THEN (IF IsCont(b1) /\ IsCont(b2) THEN 3 ELSE 0)
        ELSE IF b0 = 240
             THEN (IF b1 \in 144..191 /\ IsCont(b2) /\ IsCont(b3) THEN 4 ELSE 0)
        ELSE IF b0 \in 241..243
             THEN (IF IsCont(b1) /\ IsCont(b2) /\ IsCont(b3) THEN 4 ELSE 0)
        ELSE IF b0 = 244
             THEN (IF b1 \in 128..143 /\ IsCont(b2) /\ IsCont(b3) THEN 4 ELSE 0)
        ELSE 0

CodePoint(b, i, k) ==
    IF k = 1 THEN b[i]
    ELSE IF k = 2 THEN (b[i] - 192) * 64 + (b[i + 1] - 128)
    ELSE IF k = 3 THEN (b[i] - 224) * 4096 + (b[i + 1] - 128) * 64 + (b[i + 2] - 128)
    ELSE (b[i] - 240) * 262144 + (b[i + 1] - 128) * 4096
         + (b[i + 2] - 128) * 64 + (b[i + 3] - 128)

\* the bytes b are well-formed UTF-8: ok[i] says so of the bytes from b[i] on
WellFormed(b) ==
    LET ok[i \in 1..(Len(b) + 1)] ==
            IF i > Len(b) THEN TRUE
            ELSE IF Utf8Len(b, i) = 0 THEN FALSE
            ELSE ok[i + Utf8Len(b, i)]
    IN  ok[1]

\* the code points of well-formed bytes b: text[i] are those from b[i] on
CodePoints(b) ==
    LET text[i \in 1..(Len(b) + 1)] ==
            IF i > Len(b) THEN <<>>
            ELSE <<CodePoint(b, i, Utf8Len(b, i))>> \o text[i + Utf8Len(b, i)]
    IN  text[1]

\* bytes.decode('utf-8'): ok = FALSE stands for UnicodeDecodeError
Decode(b) ==
    IF WellFormed(b)
    THEN [ok |-> TRUE, text |-> CodePoints(b)]
    ELSE [ok |-> FALSE, text |-> <<>>]

EncodeChar(c) ==
    IF c < 128 THEN <<c>>
    ELSE IF c < 2048 THEN <<192 + (c \div 64), 128 + (c % 64)>>
    ELSE IF c < 65536
         THEN <<224 + (c \div 4096), 128 + ((c \div 64) % 64), 128 + (c % 64)>>
    ELSE <<240 + (c \div 262144), 128 + ((c \div 4096) % 64),
           128 + ((c \div 64) % 64), 128 + (c % 64)>>

RECURSIVE Encode(_)
\* str.encode('utf-8')
Encode(s) == IF s = <<>> THEN <<>> ELSE EncodeChar(Head(s)) \o Encode(Tail(s))

(***************************************************************************)
(* newline=None (the default of open): universal newlines                  *)
(***************************************************************************)
RECURSIVE ReadTranslateFrom(_, _)
ReadTranslateFrom(s, i) ==
    IF i > Len(s) THEN <<>>
    ELSE IF s[i] = CR
         THEN <<LF>> \o ReadTranslateFrom(s, IF i < Len(s) /\ s[i + 1] = LF THEN i + 2 ELSE i + 1)
    ELSE <<s[i]>> \o ReadTranslateFrom(s, i + 1)

\* on reading, "\r\n" and "\r" become "\n"
ReadTranslate(s) == ReadTranslateFrom(s, 1)

RECURSIVE WriteTranslate(_, _)
\* on writing, "\n" becomes os.linesep
WriteTranslate(s, sep) ==
    IF s = <<>> THEN <<>>
    ELSE IF Head(s) = LF THEN sep \o WriteTranslate(Tail(s), sep)
    ELSE <<Head(s)>> \o WriteTranslate(Tail(s), sep)

(***************************************************************************)
(* re.sub(pattern, '', string, count, flags) for patterns of the shape     *)
(* [lead]* literal .*$  : lead is the class of the leading star, lit the   *)
(* literal part, one character class a position                            *)
(***************************************************************************)
\* r' *// v[0-9]\.[0-9]:.*$'
Pattern1 ==
    [ lead |-> {SP},
      lit  |-> << {47}, {47}, {SP}, {118}, Digits, {46}, Digits, {58} >> ]

\* r' *// was .*$'
Pattern2 ==
    [ lead |-> {SP},
      lit  |-> << {47}, {47}, {SP}, {119}, {97}, {115}, {SP} >> ]

RECURSIVE LeadRun(_, _, _)
\* the number of characters the leading star can take at position i
LeadRun(c, s, i) == IF i <= Len(s) /\ s[i] \in c THEN 1 + LeadRun(c, s, i + 1) ELSE 0

LitAt(lit, s, j) ==
    /\ j + Len(lit) - 1 <= Len(s)
    /\ \A k \in 1..Len(lit) : s[j + k - 1] \in lit[k]

RECURSIVE DotStar(_, _, _)
\* where the greedy '.*' started at j stops: '.' takes no "\n" unless DOTALL
DotStar(s, j, flags) ==
    IF j <= Len(s) /\ (s[j] # LF \/ "DOTALL" \in flags)
    THEN DotStar(s, j + 1, flags)
    ELSE j

\* '$' before position e: the end of the string, just before a newline that
\* ends the string and, with MULTILINE, just before any newline
Dollar(s, e, flags) ==
    \/ e = Len(s) + 1
    \/ e = Len(s) /\ s[e] = LF
    \/ "MULTILINE" \in flags /\ s[e] = LF

\* the end (exclusive) of the match that starts at i, 0 when none starts there.
\* The leading star is greedy and backtracks; a shorter '.*' never helps '$',
\* since the characters '.*' took are no newlines.
MatchEnd(pat, s, i, flags) ==
    LET K == { k \in 0..LeadRun(pat.lead, s, i) : LitAt(pat.lit, s, i + k) } IN
    IF K = {} THEN 0
    ELSE LET k == CHOOSE x \in K : \A y \in K : y <= x
             e == DotStar(s, i + k + Len(pat.lit), flags)
         IN  IF Dollar(s, e, flags) THEN e ELSE 0

RECURSIVE SubFrom(_, _, _, _, _, _)
\* the scan of re.sub from position i, n replacements made so far: at the
\* leftmost match the matched text is replaced by '' and the scan goes on behind it
SubFrom(pat, s, i, count, flags, n) ==
    IF i > Len(s) THEN <<>>
    ELSE IF count # 0 /\ n >= count THEN SubSeq(s, i, Len(s))
    ELSE LET e == MatchEnd(pat, s, i, flags) IN
         IF e # 0 THEN SubFrom(pat, s, e, count, flags, n + 1)
         ELSE <<s[i]>> \o SubFrom(pat, s, i + 1, count, flags, n)

ReSub(pat, s, count, flags) == SubFrom(pat, s, 1, count, flags, 0)

\* variant: the pattern without its leading ' *'
StripVersionKeepSpaces(s) == ReSub([Pattern1 EXCEPT !.lead = {}], s, 0, {"MULTILINE"})

\* variant: flags=re.MULTILINE | re.DOTALL
StripVersionDotAll(s) == ReSub(Pattern1, s, 0, {"MULTILINE", "DOTALL"})

\* content = re.sub(r' *// v[0-9]\.[0-9]:.*$', '', content, flags=re.MULTILINE)
StripVersion(s) == ReSub(Pattern1, s, 0, {"MULTILINE"})

\* variant: count=1
StripWasOnce(s) == ReSub(Pattern2, s, 1, {"MULTILINE"})

\* variant: without flags=re.MULTILINE
StripWasNoFlag(s) == ReSub(Pattern2, s, 0, {})

\* content = re.sub(r' *// was .*$', '', content, flags=re.MULTILINE)
StripWas(s) == ReSub(Pattern2, s, 0, {"MULTILINE"})

(***************************************************************************)
(* The script                                                              *)
(***************************************************************************)
input_file == "backend/config/essenceTap.js"
output_file == "backend/config/essenceTap.js"
Paths == {input_file, output_file}

Instances == {1, 2}

Report ==
    << "Cleaned config file: " \o output_file,
       "Removed all inline version comments" >>

VARIABLES
    fs,        \* path -> the bytes of the file at that path
    fmode,     \* path -> "ok", "missing", "unreadable" or "readonly"
    linesep,   \* os.linesep of the platform
    orig,      \* history: the bytes of the file before any run
    pc,        \* instance -> the statement it is at
    raw,       \* instance -> the bytes f.read() got
    content,   \* instance -> the variable content
    wbuf,      \* instance -> the bytes handed to the writer
    wpos,      \* instance -> the offset of its descriptor open for writing
    out,       \* instance -> the lines it printed
    failedAt,  \* instance -> the statement that raised, "" if none
    wlog       \* history: the opens for writing and the closes, in order

vars == << fs, fmode, linesep, orig, pc, raw, content, wbuf, wpos, out, failedAt, wlog >>

env == << fmode, linesep, orig >>

Start(T, n) ==
    /\ fmode \in [Paths -> {"ok", "missing", "unreadable", "readonly"}]
    /\ fs \in [Paths -> Texts(T, n)]
    /\ fmode[input_file] = "missing" => fs[input_file] = <<>>
    /\ linesep \in { <<LF>>, <<CR, LF>> }
    /\ orig = fs[input_file]
    /\ pc = [p \in Instances |-> "idle"]
    /\ raw = [p \in Instances |-> <<>>]
    /\ content = [p \in Instances |-> <<>>]
    /\ wbuf = [p \in Instances |-> <<>>]
    /\ wpos = [p \in Instances |-> 0]
    /\ out = [p \in Instances |-> <<>>]
    /\ failedAt = [p \in Instances |-> ""]
    /\ wlog = <<>>

Init == Start(Tokens, MaxTokens)

InitRace == Start(RaceTokens, MaxRaceTokens)

Raise(p) ==
    /\ pc' = [pc EXCEPT ![p] = "failed"]
    /\ failedAt' = [failedAt EXCEPT ![p] = pc[p]]

Goto(p, l) ==
    /\ pc' = [pc EXCEPT ![p] = l]
    /\ UNCHANGED failedAt

\* the operator runs the script again once the run before it has completed
Launch(p) ==
    /\ pc[p] = "idle"
    /\ \A q \in Instances : q < p => pc[q] = "done"
    /\ Goto(p, "open_r")
    /\ UNCHANGED << fs, env, raw, content, wbuf, wpos, out, wlog >>

\* two instances started side by side
LaunchRace(p) ==
    /\ pc[p] = "idle"
    /\ Goto(p, "open_r")
    /\ UNCHANGED << fs, env, raw, content, wbuf, wpos, out, wlog >>

\* with open(input_file, 'r', encoding='utf-8') as f:
OpenRead(p) ==
    /\ pc[p] = "open_r"
    /\ IF fmode[input_file] \in {"missing", "unreadable"}
       THEN Raise(p)
       ELSE Goto(p, "read")
    /\ UNCHANGED << fs, env, raw, content, wbuf, wpos, out, wlog >>

\* variant: a decoding error is swallowed and the run goes on with no text
ReadSwallow(p) ==
    /\ pc[p] = "read"
    /\ raw' = [raw EXCEPT ![p] = fs[input_file]]
    /\ \E d \in { Decode(fs[input_file]) } :
          content' = [content EXCEPT ![p] = IF d.ok THEN ReadTranslate(d.text) ELSE <<>>]
    /\ Goto(p, "sub1")
    /\ UNCHANGED << fs, env, wbuf, wpos, out, wlog >>

\*     content = f.read()
Read(p) ==
    /\ pc[p] = "read"
    /\ raw' = [raw EXCEPT ![p] = fs[input_file]]
    /\ \E d \in { Decode(fs[input_file]) } :
          IF d.ok
          THEN /\ content' = [content EXCEPT ![p] = ReadTranslate(d.text)]
               /\ Goto(p, "sub1")
          ELSE /\ UNCHANGED content
               /\ Raise(p)
    /\ UNCHANGED << fs, env, wbuf, wpos, out, wlog >>

Sub1(p) ==
    /\ pc[p] = "sub1"
    /\ content' = [content EXCEPT ![p] = StripVersion(content[p])]
    /\ Goto(p, "sub2")
    /\ UNCHANGED << fs, env, raw, wbuf, wpos, out, wlog >>

Sub2(p) ==
    /\ pc[p] = "sub2"
    /\ content' = [content EXCEPT ![p] = StripWas(content[p])]
    /\ Goto(p, "open_w")
    /\ UNCHANGED << fs, env, raw, wbuf, wpos, out, wlog >>

\* variant: the file is opened without being truncated (mode 'r+')
OpenWriteNoTrunc(p) ==
    /\ pc[p] = "open_w"
    /\ IF fmode[output_file] = "readonly"
       THEN /\ Raise(p)
            /\ UNCHANGED << wpos, wlog >>
       ELSE /\ wpos' = [wpos EXCEPT ![p] = 0]
            /\ wlog' = Append(wlog, <<"open", p>>)
            /\ Goto(p, "write")
    /\ UNCHANGED << fs, env, raw, content, wbuf, out >>

\* with open(output_file, 'w', encoding='utf-8') as f:   'w' truncates the file
OpenWrite(p) ==
    /\ pc[p] = "open_w"
    /\ IF fmode[output_file] = "readonly"
       THEN /\ Raise(p)
            /\ UNCHANGED << fs, wpos, wlog >>
       ELSE /\ fs' = [fs EXCEPT ![output_file] = <<>>]
            /\ wpos' = [wpos EXCEPT ![p] = 0]
            /\ wlog' = Append(wlog, <<"open", p>>)
            /\ Goto(p, "write")
    /\ UNCHANGED << env, raw, content, wbuf, out >>

\* the bytes f.write(content) produces: "\n" -> os.linesep, then UTF-8
Encoded(s) == Encode(WriteTranslate(s, linesep))

\*     f.write(content)    (the text is encoded and kept in the writer's buffer)
Write(p) ==
    /\ pc[p] = "write"
    /\ wbuf' = [wbuf EXCEPT ![p] = Encoded(content[p])]
    /\ Goto(p, "close")
    /\ UNCHANGED << fs, env, raw, content, wpos, out, wlog >>

\* write(2) of data at offset off; a gap behind the end of the file reads as zeros
WriteAt(f, off, data) ==
    LET n == IF off + Len(data) > Len(f) THEN off + Len(data) ELSE Len(f) IN
    [ i \in 1..n |->
        IF i > off /\ i <= off + Len(data) THEN data[i - off]
        ELSE IF i <= Len(f) THEN f[i]
        ELSE 0 ]

\* leaving the with block flushes the buffer: each write(2) takes some of the
\* bytes that are left
FlushChunk(p) ==
    /\ pc[p] = "close"
    /\ \E k \in 1..(Len(wbuf[p]) - wpos[p]) :
          /\ fs' = [fs EXCEPT ![output_file] =
                       WriteAt(@, wpos[p], SubSeq(wbuf[p], wpos[p] + 1, wpos[p] + k))]
          /\ wpos' = [wpos EXCEPT ![p] = @ + k]
    /\ UNCHANGED << env, pc, raw, content, wbuf, out, failedAt, wlog >>

\* a write(2) fails (disk full, I/O error): OSError leaves the script
FlushFail(p) ==
    /\ pc[p] = "close"
    /\ wpos[p] < Len(wbuf[p])
    /\ Raise(p)
    /\ UNCHANGED << fs, env, raw, content, wbuf, wpos, out, wlog >>

\* variant: the script goes on to the report without the buffer being flushed
CloseNoFlush(p) ==
    /\ pc[p] = "close"
    /\ wlog' = Append(wlog, <<"close", p>>)
    /\ Goto(p, "print1")
    /\ UNCHANGED << fs, env, raw, content, wbuf, wpos, out >>

\* everything is written: the file is closed
Close(p) ==
    /\ pc[p] = "close"
    /\ wpos[p] = Len(wbuf[p])
    /\ wlog' = Append(wlog, <<"close", p>>)
    /\ Goto(p, "print1")
    /\ UNCHANGED << fs, env, raw, content, wbuf, wpos, out >>

\* print(f"Cleaned config file: {output_file}")
Print1(p) ==
    /\ pc[p] = "print1"
    /\ out' = [out EXCEPT ![p] = Append(@, Report[1])]
    /\ Goto(p, "print2")
    /\ UNCHANGED << fs, env, raw, content, wbuf, wpos, wlog >>

\* print("Removed all inline version comments")
Print2(p) ==
    /\ pc[p] = "print2"
    /\ out' = [out EXCEPT ![p] = Append(@, Report[2])]
    /\ Goto(p, "done")
    /\ UNCHANGED << fs, env, raw, content, wbuf, wpos, wlog >>

Step(p) ==
    \/ OpenRead(p)
    \/ Read(p)
    \/ Sub1(p)
    \/ Sub2(p)
    \/ OpenWrite(p)
    \/ Write(p)
    \/ FlushChunk(p)
    \/ FlushFail(p)
    \/ Close(p)
    \/ Print1(p)
    \/ Print2(p)

Next == \E p \in Instances : Launch(p) \/ Step(p)

NextRace == \E p \in Instances : LaunchRace(p) \/ Step(p)

\* runs one after the other
Spec == Init /\ [][Next]_vars

\* two instances at once, their steps interleaved in any order
SpecRace == InitRace /\ [][NextRace]_vars

(***************************************************************************)
(* Vocabulary of the properties                                            *)
(***************************************************************************)
\* "// v<digit>.<digit>:" stands at position j of l
VersionAt(l, j) ==
    /\ j + 7 <= Len(l)
    /\ <<l[j], l[j + 1], l[j + 2], l[j + 3]>> = <<47, 47, 32, 118>>
    /\ l[j + 4] \in 48..57
    /\ l[j + 5] = 46
    /\ l[j + 6] \in 48..57
    /\ l[j + 7] = 58

\* "// was " stands at position j of l
WasAt(l, j) ==
    /\ j + 6 <= Len(l)
    /\ SubSeq(l, j, j + 6) = <<47, 47, 32, 119, 97, 115, 32>>

MarkerAt(l, j) == VersionAt(l, j) \/ WasAt(l, j)

HasMarker(l) == \E j \in 1..Len(l) : MarkerAt(l, j)

IsPrefix(a, b) == Len(a) <= Len(b) /\ a = SubSeq(b, 1, Len(a))

\* a is b without some of the spaces b ends with
LessSpaces(a, b) == IsPrefix(a, b) /\ \A k \in (Len(a) + 1)..Len(b) : b[k] = 32

\* a is b without the spaces b ends with
Stripped(a, b) == LessSpaces(a, b) /\ (a = <<>> \/ a[Len(a)] # 32)

RECURSIVE LinesFrom(_, _, _)
LinesFrom(b, i, cur) ==
    IF i > Len(b) THEN <<cur>>
    ELSE IF b[i] = 13 /\ i < Len(b) /\ b[i + 1] = 10
         THEN <<cur>> \o LinesFrom(b, i + 2, <<>>)
    ELSE IF b[i] \in {10, 13} THEN <<cur>> \o LinesFrom(b, i + 1, <<>>)
    ELSE LinesFrom(b, i + 1, Append(cur, b[i]))

\* the lines of a file: what stands between its line breaks "\n", "\r\n", "\r"
LinesOf(b) == LinesFrom(b, 1, <<>>)

\* instance p has completed and no later run has started: the file at the
\* path is what p made of the bytes raw[p] it read
Ran(p) == pc[p] = "done" /\ \A q \in Instances : q > p => pc[q] = "idle"

Written == fs[output_file]

\* the number of lines a run read and the number of lines it left
LineCounts ==
    { <<Len(LinesOf(raw[p])), Len(LinesOf(Written))>> : p \in { q \in Instances : Ran(q) } }

\* the pairs of a line a run read and the line it left at the same place
LinePairs ==
    UNION { { <<LinesOf(raw[p])[i], LinesOf(Written)[i]>> :
                i \in 1..(IF Len(LinesOf(raw[p])) <= Len(LinesOf(Written))
                          THEN Len(LinesOf(raw[p])) ELSE Len(LinesOf(Written))) } :
            p \in { q \in Instances : Ran(q) } }

\* the bytes a complete run writes when it reads b, a well-formed text
Expected(b) == Encoded(StripWas(StripVersion(ReadTranslate(Decode(b).text))))

Opened(p) == \E k \in 1..Len(wlog) : wlog[k] = <<"open", p>>

Closed(p) == \E k \in 1..Len(wlog) : wlog[k] = <<"close", p>>

(***************************************************************************)
(* C1  Idempotence                                                         *)
(***************************************************************************)
\* C1: when the second run, started on the file the first completed run left
\* (raw[2] is that file, read before anything touched it), has completed, the
\* file holds the same bytes as after the first run.
C1_Idempotent == pc[2] = "done" => Written = raw[2]

\* both runs completed and the first one had something to strip on two lines
C1_Witness ==
    /\ pc[2] = "done"
    /\ Written # orig
    /\ \E i, j \in 1..Len(orig) : i < j /\ orig[i] = 10 /\ WasAt(orig, j) /\ HasMarker(SubSeq(orig, 1, i))

(***************************************************************************)
(* C2  Non-interference across lines                                       *)
(***************************************************************************)
\* C2: after a completed run every line without a match of either pattern is
\* byte-identical to the line the run read, and a file without any match is
\* written back unchanged.
C2_NonInterference ==
    /\ \A c \in LineCounts : c[1] = c[2]
    /\ \A x \in LinePairs : ~HasMarker(x[1]) => x[2] = x[1]
    /\ \A p \in Instances : Ran(p) /\ ~HasMarker(raw[p]) => Written = raw[p]

(***************************************************************************)
(* C8  No match of either pattern is left                                  *)
(***************************************************************************)
\* C8: after a completed run the written file contains no "// v<digit>.<digit>:"
\* and no "// was ".
C8_NoMatchLeft == \A p \in Instances : Ran(p) => ~HasMarker(Written)

\* a completed first run whose input had a line with both kinds of comment,
\* and another line with a comment
C8_Witness ==
    /\ Ran(1)
    /\ \E i, j, k \in 1..Len(orig) :
          /\ VersionAt(orig, i) /\ WasAt(orig, j)
          /\ orig[k] \in {10, 13} /\ (k < i \/ k < j)

(***************************************************************************)
(* C9  Only a suffix of a line is removed                                  *)
(***************************************************************************)
\* C9: after a completed run the file has as many lines as the run read, and
\* each line is a prefix of the line read at the same place.
C9_SuffixOfLineOnly ==
    /\ \A c \in LineCounts : c[1] = c[2]
    /\ \A x \in LinePairs : IsPrefix(x[2], x[1])

\* a completed first run on a file whose first line is only a comment and
\* whose second line is not empty
C9_Witness ==
    /\ Ran(1)
    /\ Len(LinesOf(orig)) >= 2
    /\ MarkerAt(LinesOf(orig)[1], 1)
    /\ LinesOf(Written)[1] = <<>>
    /\ LinesOf(Written)[2] # <<>>

(***************************************************************************)
(* C3  Suffix-only removal                                                 *)
(***************************************************************************)
\* the prefixes of line l: what stands before a space and "// v<digit>.<digit>:"
Prefixes(l) ==
    { SubSeq(l, 1, j - 2) : j \in { k \in 2..Len(l) : l[k - 1] = 32 /\ VersionAt(l, k) } }

\* C3 as stated: for a line "<prefix> // v<digit>.<digit>: ...", whatever the
\* prefix, the line a completed run leaves is the prefix, less spaces at its end.
C3_AnyPrefix ==
    /\ \A c \in LineCounts : c[1] = c[2]
    /\ \A x \in LinePairs : \A pre \in Prefixes(x[1]) : LessSpaces(x[2], pre)

\* C3, amended: for a line "<prefix> // v<digit>.<digit>: ..." whose prefix
\* holds no match of either pattern, the line a completed run leaves is the
\* prefix without the spaces at its end.
C3_PrefixKept ==
    /\ \A c \in LineCounts : c[1] = c[2]
    /\ \A x \in LinePairs : \A pre \in Prefixes(x[1]) :
          ~HasMarker(pre) => Stripped(x[2], pre)

\* a completed first run on a line with a prefix that ends in spaces
C3_Witness ==
    /\ Ran(1)
    /\ \E x \in LinePairs : \E pre \in Prefixes(x[1]) :
          /\ ~HasMarker(pre)
          /\ Len(pre) >= 2 /\ pre[Len(pre)] = 32
          /\ x[2] # <<>>

(***************************************************************************)
(* C4  Matching is textual: nothing from the first occurrence on is kept   *)
(***************************************************************************)
\* C4: a line that contains "// v<digit>.<digit>:" or "// was " is, after a
\* completed run, no longer than the text before the first such occurrence.
C4_NothingKeptFromMarker ==
    /\ \A c \in LineCounts : c[1] = c[2]
    /\ \A x \in LinePairs : \A j \in 1..Len(x[1]) :
          MarkerAt(x[1], j) => Len(x[2]) <= j - 1

(***************************************************************************)
(* C5  A failing read leaves the file alone                                *)
(***************************************************************************)
\* the file cannot be opened for reading, or holds a byte no UTF-8 text holds
Unreadable ==
    \/ fmode[input_file] \in {"missing", "unreadable"}
    \/ \E i \in 1..Len(orig) : orig[i] \in {192, 193} \cup 245..255

\* C5: when opening, reading or decoding fails, the run ends there: the file
\* is never opened for writing, keeps its bytes, and nothing is printed.
C5_ReadFailureWritesNothing ==
    Unreadable =>
        /\ Written = orig
        /\ wlog = <<>>
        /\ \A p \in Instances :
              /\ out[p] = <<>>
              /\ pc[p] \in {"idle", "open_r", "read", "failed"}
              /\ pc[p] = "failed" => failedAt[p] \in {"open_r", "read"} /\ ~ENABLED Step(p)

\* the run has ended on a file with text before and after the bad byte
C5_Witness ==
    /\ pc[1] = "failed"
    /\ failedAt[1] = "read"
    /\ Len(orig) >= 3
    /\ orig[1] < 128 /\ orig[Len(orig)] < 128

(***************************************************************************)
(* C6  Order of the steps and the report                                   *)
(***************************************************************************)
IsReport(o) == o \in { SubSeq(Report, 1, n) : n \in 0..2 }

\* C6: the two report lines are printed in their order, once each, and the
\* first only when the stripped text of the run is in the file; a completed
\* run has printed both.
C6_ReportAfterWrite ==
    \A p \in Instances :
        /\ IsReport(out[p])
        /\ out[p] = <<"Cleaned config file: backend/config/essenceTap.js">>
              => pc[p] = "print2"
        /\ out[p] = <<"Cleaned config file: backend/config/essenceTap.js",
                      "Removed all inline version comments">>
              => pc[p] = "done"
        /\ pc[p] = "done" => Len(out[p]) = 2
        /\ out[p] # <<>> /\ (\A q \in Instances : q > p => pc[q] = "idle")
              => Written = Expected(raw[p])

\* the first run stripped a file down to nothing and reported; the second run
\* found it empty, left it empty and reported as well
C6_Witness ==
    /\ pc[1] = "done" /\ pc[2] = "done"
    /\ orig # <<>>
    /\ raw[2] = <<>>
    /\ Written = <<>>
    /\ Len(out[2]) = 2

(***************************************************************************)
(* C7  Two instances at once                                               *)
(***************************************************************************)
AllDone == \A p \in Instances : pc[p] = "done"

\* the instance that wrote last: the last one to close the file
LastWriter == wlog[Len(wlog)][2]

\* the write of the last writer started after the other write had ended
WritesApart ==
    /\ Len(wlog) = 4
    /\ wlog[1][1] = "open" /\ wlog[2] = <<"close", wlog[1][2]>>
    /\ wlog[3] = <<"open", LastWriter>>

\* C7 as stated: when both instances have completed, the file holds what the
\* instance that wrote last has written.
C7_LastWriterWins == AllDone => Written = wbuf[LastWriter]

\* the place of a statement in the script
StageOf(l) ==
    CASE l = "idle" -> 0 [] l = "open_r" -> 1 [] l = "read" -> 2 [] l = "sub1" -> 3
      [] l = "sub2" -> 4 [] l = "open_w" -> 5 [] l = "write" -> 6 [] l = "close" -> 7
      [] l = "print1" -> 8 [] l = "print2" -> 9 [] l = "done" -> 10 [] l = "failed" -> 10

\* an instance that has not ended can take a step
NotStuck ==
    \A p \in Instances :
        pc[p] \notin {"done", "failed"} => ENABLED (LaunchRace(p) \/ Step(p))

\* a step takes one instance to a later statement, or writes more of its bytes
\* while it flushes (wpos is at most Len(wbuf)); the other instance stays put
Advances ==
    \E p \in Instances :
        /\ \/ StageOf(pc'[p]) > StageOf(pc[p])
           \/ pc'[p] = pc[p] /\ pc[p] = "close" /\ wpos[p] < wpos'[p] /\ wpos'[p] <= Len(wbuf[p])
        /\ \A q \in Instances \ {p} : pc'[q] = pc[q] /\ wpos'[q] = wpos[q]

\* C7, amended: both instances end (neither is ever stuck, and every step
\* advances one of them), and when both have completed and the last writer
\* opened the file for writing after the other had closed it, the file holds
\* what the last writer has written.
C7_LastWriterWinsApart ==
    /\ []NotStuck
    /\ [][Advances]_vars
    /\ [](AllDone /\ WritesApart => Written = wbuf[LastWriter])

\* both completed, one after the other had closed the file, and they wrote
\* different bytes: the later one had read the file while it was cut short
C7_Witness ==
    /\ AllDone
    /\ WritesApart
    /\ wbuf[1] # wbuf[2]
    /\ Written = wbuf[LastWriter]

(***************************************************************************)
(* C10  What the file holds during a run                                   *)
(***************************************************************************)
\* C10 as stated: at every point of the first run the file holds the complete
\* original bytes or the complete stripped bytes.
C10_OriginalOrStripped ==
    pc[2] = "idle" =>
        \/ Written = orig
        \/ Decode(orig).ok /\ Written = Expected(orig)

\* C10, amended: the file holds the complete original bytes until the run
\* opens it for writing; from then on it holds the part of the stripped bytes
\* written so far, nothing right after the open, and all of them once the file
\* is closed.
C10_OriginalThenPrefix ==
    pc[2] = "idle" =>
        IF ~Opened(1) THEN Written = orig
        ELSE /\ IsPrefix(Written, Expected(orig))
             /\ pc[1] = "write" => Written = <<>>
             /\ Closed(1) => Written = Expected(orig)

\* the write failed half way: the file holds a part of the stripped bytes,
\* which are not the original ones
C10_Witness ==
    /\ pc[1] = "failed" /\ failedAt[1] = "close"
    /\ Written # <<>>
    /\ Len(Written) < Len(wbuf[1])
    /\ wbuf[1] # orig

====
